---- MODULE Spec2Model ----
(***************************************************************************)
(* Model of the execution orchestrator of server/server.js: the /api/execute*)
(* /api/stop and /api/runs/:id/rerun handlers, the stdout/stderr/exit/close *)
(* callbacks of the spawned child, completion handling, the two result      *)
(* parsers and the history file.                                            *)
(*                                                                          *)
(* Text (script names, file paths, output) is a sequence of one-character   *)
(* strings, so that includes / startsWith / trim / the regular expressions  *)
(* are computed character by character as the code does.                    *)
(***************************************************************************)
EXTENDS Integers, Sequences, FiniteSets, TLC

VARIABLES
    now,              \* Date.now(), in milliseconds
    platform,         \* process.platform
    writable,         \* history.json can be written: fs.writeFileSync of server.js:39 succeeds
    crashed,          \* an exception left a callback uncaught and ended the process
    currentExecution, \* server.js:55, null or {child, runId}
    children,         \* every child spawned so far, with the state of its closure
    files,            \* AUTOMATION_DIR/test-results-<runId>.json, by runId
    history,          \* data.history of history.json, newest first
    events,           \* what io.emit has sent, in emission order
    response          \* the response the last step sent, if it handled a request

vars == <<now, platform, writable, crashed, currentExecution, children, files, history, events, response>>

-----------------------------------------------------------------------------
(* Bounds of the model *)

MaxRuns == 2    \* children spawned in one behaviour
MaxTime == 3    \* last clock value
MaxOut == 1     \* data chunks the children deliver in one behaviour

(* Program constants *)

HistoryCap == 100   \* server.js:46
NoCode == -1        \* the `null` exit code of a child ended by a signal

-----------------------------------------------------------------------------
(* Text *)

Digits == <<"0", "1", "2", "3", "4", "5", "6", "7", "8", "9">>

IsDigit(c) == \E d \in 1..10 : Digits[d] = c

DigitValue(c) == (CHOOSE d \in 1..10 : Digits[d] = c) - 1

\* \s of the regular expressions and the characters trim() removes
IsSpace(c) == c \in {" ", "\n", "\t", "\r"}

\* the `i` flag, for the capital letters of the texts the inputs are drawn from
Lower(c) ==
    CASE c = "B" -> "b"
      [] c = "F" -> "f"
      [] c = "L" -> "l"
      [] c = "P" -> "p"
      [] c = "S" -> "s"
      [] OTHER -> c

LowerStr(s) == [i \in 1..Len(s) |-> Lower(s[i])]

\* s.startsWith(prefix)
StartsWith(s, prefix) ==
    /\ Len(prefix) <= Len(s)
    /\ \A k \in 1..Len(prefix) : s[k] = prefix[k]

\* s.endsWith(suffix)
EndsWith(s, suffix) ==
    /\ Len(suffix) <= Len(s)
    /\ \A k \in 1..Len(suffix) : s[Len(s) - Len(suffix) + k] = suffix[k]

\* sub occurs in s at offset i  (s[i+1 .. i+Len(sub)] = sub)
OccursAt(s, sub, i) ==
    /\ i + Len(sub) <= Len(s)
    /\ \A k \in 1..Len(sub) : s[i + k] = sub[k]

\* s.includes(sub)
Includes(s, sub) == \E i \in 0..Len(s) : OccursAt(s, sub, i)

\* s.trim()
Trim(s) ==
    LET keep == {i \in 1..Len(s) : ~IsSpace(s[i])}
    IN  IF keep = {} THEN <<>>
        ELSE LET lo == CHOOSE i \in keep : \A j \in keep : i <= j
                 hi == CHOOSE i \in keep : \A j \in keep : j <= i
             IN  SubSeq(s, lo, hi)

RECURSIVE Sum(_)
\* nums.reduce((sum, n) => sum + n, 0)
Sum(nums) == IF nums = <<>> THEN 0 ELSE Head(nums) + Sum(Tail(nums))

\* Math.round(n / d) for n >= 0, d > 0
RoundDiv(n, d) == (2 * n + d) \div (2 * d)

-----------------------------------------------------------------------------
(* Number arithmetic of server.js:324.  A positive Number is an IEEE 754     *)
(* double: a significand of 53 binary digits, most significant first, and   *)
(* the exponent of its last digit.  Digits are kept in sequences, since a   *)
(* significand does not fit an integer of the checker; the totals divided   *)
(* are below 46341, so that no product of two of them overflows.            *)

SignificandBits == 53   \* IEEE 754 binary64
QuotientBits == 90      \* binary places a quotient is developed to before rounding

Front(b) == SubSeq(b, 1, Len(b) - 1)

Zeros(n) == [i \in 1..n |-> 0]

\* b without its leading zeros
StripZeros(b) ==
    IF \A i \in 1..Len(b) : b[i] = 0 THEN <<>>
    ELSE SubSeq(b, CHOOSE i \in 1..Len(b) : b[i] = 1 /\ \A k \in 1..(i - 1) : b[k] = 0,
                Len(b))

RECURSIVE BitsValue(_)
\* the number a short digit sequence denotes
BitsValue(b) == IF b = <<>> THEN 0 ELSE 2 * BitsValue(Front(b)) + b[Len(b)]

\* b + 1
Inc(b) ==
    IF \A i \in 1..Len(b) : b[i] = 1 THEN <<1>> \o Zeros(Len(b))
    ELSE LET z == CHOOSE i \in 1..Len(b) : b[i] = 0 /\ \A k \in (i + 1)..Len(b) : b[k] = 1
         IN  [i \in 1..Len(b) |-> IF i < z THEN b[i] ELSE IF i = z THEN 1 ELSE 0]

\* a carry enters digit i of x + y, two digit sequences of one length
CarryInto(x, y, i) ==
    \E j \in (i + 1)..Len(x) :
        /\ x[j] + y[j] = 2
        /\ \A k \in (i + 1)..(j - 1) : x[k] + y[k] = 1

\* x + y for two digit sequences of one length that begin with 0
AddAligned(x, y) ==
    [i \in 1..Len(x) |-> (x[i] + y[i] + (IF CarryInto(x, y, i) THEN 1 ELSE 0)) % 2]

\* a + b
AddBits(a, b) ==
    StripZeros(AddAligned(Zeros(Len(a) + Len(b) + 1 - Len(a)) \o a,
                          Zeros(Len(a) + Len(b) + 1 - Len(b)) \o b))

RECURSIVE TwoPowMod(_, _)
\* 2^k mod d
TwoPowMod(k, d) ==
    IF k = 0 THEN 1 % d
    ELSE IF k % 2 = 1 THEN (2 * TwoPowMod(k - 1, d)) % d
    ELSE (TwoPowMod(k \div 2, d) * TwoPowMod(k \div 2, d)) % d

\* the first n binary places of r / d, for 0 <= r < d
FractionBits(r, d, n) ==
    [i \in 1..n |-> (2 * ((r * TwoPowMod(i - 1, d)) % d)) \div d]

\* what of r / d lies beyond its first n binary places, as a remainder
FractionRest(r, d, n) == (r * TwoPowMod(n, d)) % d

\* the 53 leading digits of b rounded to nearest, ties to even, where more
\* says that non-zero digits follow b; b begins with 1 and is longer than 53
RoundedSignificand(b, more) ==
    LET keep == SubSeq(b, 1, SignificandBits)
        rest == more \/ \E i \in (SignificandBits + 2)..Len(b) : b[i] = 1
    IN  IF b[SignificandBits + 1] = 1 /\ (rest \/ keep[SignificandBits] = 1)
        THEN Inc(keep) ELSE keep

\* the double nearest to b * 2^exp (b begins with 1)
ToDouble(b, more, exp) ==
    IF Len(b) <= SignificandBits
    THEN [bits |-> b \o Zeros(SignificandBits - Len(b)),
          exp  |-> exp - (SignificandBits - Len(b))]
    ELSE IF Len(RoundedSignificand(b, more)) > SignificandBits
    THEN [bits |-> SubSeq(RoundedSignificand(b, more), 1, SignificandBits),
          exp  |-> exp + (Len(b) - SignificandBits) + 1]
    ELSE [bits |-> RoundedSignificand(b, more),
          exp  |-> exp + (Len(b) - SignificandBits)]

\* n / d of two Numbers holding the integers 0 < n <= d
Quotient(n, d) ==
    ToDouble(StripZeros(<<n \div d>> \o FractionBits(n % d, d, QuotientBits)),
             FractionRest(n % d, d, QuotientBits) # 0,
             0 - QuotientBits)

\* x * 100: 100 = 64 + 32 + 4
Times100(x) ==
    ToDouble(AddBits(AddBits(x.bits \o Zeros(6), x.bits \o Zeros(5)),
                     x.bits \o Zeros(2)),
             FALSE, x.exp)

\* the digits of x before the binary point followed by the first one after it
PointBits(x) ==
    LET padded == Zeros(1 - x.exp) \o x.bits
    IN  SubSeq(padded, 1, Len(padded) + x.exp + 1)

\* Math.round(x) of a double 0 < x < 2^52: the nearest integer, a tie upwards
MathRound(x) ==
    BitsValue(Front(PointBits(x))) + PointBits(x)[Len(PointBits(x))]

\* Math.round((totalPassed / totalTests) * 100), server.js:324, for
\* 0 <= totalPassed <= totalTests and totalTests > 0.  0 / d is 0 and d / d is
\* 1, both exact, as are their products with 100.
RoundedPercent(totalPassed, totalTests) ==
    IF totalPassed = 0 THEN 0
    ELSE IF totalPassed = totalTests THEN 100
    ELSE MathRound(Times100(Quotient(totalPassed, totalTests)))

-----------------------------------------------------------------------------
(* parsePlaywrightJSON, server.js:357-420.                                  *)
(* A report is [suites |-> <<suite, ...>>]; a suite is                      *)
(* [file, specs, suites]; a spec is [title, tests]; a test is [results]; a  *)
(* result is [status, duration].  A missing (undefined) member is the empty *)
(* sequence, which the code's `&&`, `?.` and `||` treat like an empty one.  *)

\* spec.tests?.[0]?.results?.[0]
FirstResult(spec) ==
    IF Len(spec.tests) > 0 /\ Len(spec.tests[1].results) > 0
    THEN <<spec.tests[1].results[1]>>
    ELSE <<>>

\* spec.tests?.[0]?.results?.[0]?.duration || 0
TestDuration(spec) ==
    IF FirstResult(spec) = <<>> THEN 0 ELSE FirstResult(spec)[1].duration

\* spec.tests?.[0]?.results?.[0]?.status || 'unknown'
TestStatus(spec) ==
    IF FirstResult(spec) = <<>> \/ FirstResult(spec)[1].status = ""
    THEN "unknown"
    ELSE FirstResult(spec)[1].status

\* server.js:377-396, the testCases one matching suite contributes
SuiteTestCases(suite) ==
    [i \in 1..Len(suite.specs) |->
        [title    |-> IF suite.specs[i].title = "" THEN "Unknown Test"
                      ELSE suite.specs[i].title,
         status   |-> TestStatus(suite.specs[i]),
         duration |-> TestDuration(suite.specs[i])]]

RECURSIVE findTests(_, _)
\* server.js:371-405, as the testCases pushed, in the order of the walk
findTests(suites, script) ==
    IF suites = <<>> THEN <<>>
    ELSE LET suite == Head(suites)
         IN  (IF suite.file # <<>> /\ Includes(suite.file, script)
              THEN SuiteTestCases(suite) ELSE <<>>)
             \o findTests(suite.suites, script)
             \o findTests(Tail(suites), script)

\* a test that counts as passed only under the status "passed"
IsPassedOnly(testCase) == testCase.status = "passed"

\* server.js:384
IsPassed(testCase) == testCase.status \in {"passed", "expected"}

IsFailed(testCase) == testCase.status \in {"failed", "unexpected"}

\* server.js:363-417, the entry of one script
JSONScriptResult(jsonReport, script) ==
    LET testCases == findTests(jsonReport.suites, script)
    IN  [scriptName |-> script,
         passed     |-> Cardinality({i \in 1..Len(testCases) : IsPassed(testCases[i])}),
         failed     |-> Cardinality({i \in 1..Len(testCases) : IsFailed(testCases[i])}),
         totalTests |-> Len(testCases),
         duration   |-> Sum([i \in 1..Len(testCases) |-> testCases[i].duration]),
         testCases  |-> testCases]

parsePlaywrightJSON(jsonReport, scripts) ==
    [i \in 1..Len(scripts) |-> JSONScriptResult(jsonReport, scripts[i])]

-----------------------------------------------------------------------------
(* parsePlaywrightResults, server.js:423-468: the three regular expressions *)
(* over the accumulated output, matched character by character.  A script   *)
(* name is text of letters, digits and parentheses; it is spliced into the  *)
(* patterns unescaped, where its parentheses are group delimiters.          *)

RECURSIVE GroupDepth(_, _)
\* the groups that pattern text s leaves open, -1 once a ")" closes none
GroupDepth(s, open) ==
    IF open < 0 \/ s = <<>> THEN open
    ELSE IF Head(s) = "(" THEN GroupDepth(Tail(s), open + 1)
    ELSE IF Head(s) = ")" THEN GroupDepth(Tail(s), open - 1)
    ELSE GroupDepth(Tail(s), open)

\* new RegExp(`${script}.*?spec\\.ts`, 'i'), server.js:436 (and :441-443),
\* throws SyntaxError: unterminated group, or unmatched ")"
RegExpThrows(script) == GroupDepth(script, 0) # 0

\* the text a script with well-formed groups matches: groups match what
\* their content matches
GroupedText(script) == SelectSeq(script, LAMBDA c : c \notin {"(", ")"})

RECURSIVE ParseDigits(_)
\* parseInt of a run of decimal digits
ParseDigits(ds) ==
    IF ds = <<>> THEN 0
    ELSE 10 * ParseDigits(SubSeq(ds, 1, Len(ds) - 1)) + DigitValue(ds[Len(ds)])

RECURSIVE Pow10(_)
Pow10(k) == IF k = 0 THEN 1 ELSE 10 * Pow10(k - 1)

\* the `.` of a regular expression without the s flag
IsDot(c) == c \notin {"\n", "\r"}

\* the last index of the longest run of characters satisfying P that starts
\* at i; i - 1 when s[i] does not satisfy it (a greedy X* from i)
DigitRunEnd(s, i) ==
    CHOOSE j \in (i - 1)..Len(s) :
        /\ \A k \in i..j : IsDigit(s[k])
        /\ (j < Len(s) => ~IsDigit(s[j + 1]))

SpaceRunEnd(s, i) ==
    CHOOSE j \in (i - 1)..Len(s) :
        /\ \A k \in i..j : IsSpace(s[k])
        /\ (j < Len(s) => ~IsSpace(s[j + 1]))

\* word, then .*?, then script, from offset k (word begins at s[k + 1])
WordThenScript(s, k, word, script) ==
    /\ OccursAt(LowerStr(s), LowerStr(word), k)
    /\ \E m \in (k + Len(word))..Len(s) :
        /\ OccursAt(LowerStr(s), LowerStr(script), m)
        /\ \A x \in (k + Len(word) + 1)..m : IsDot(s[x])

\* (\d+)\s+word.*?script matches with the match beginning at s[i]
CountMatchAt(s, i, word, script) ==
    /\ IsDigit(s[i])
    /\ LET j == DigitRunEnd(s, i)
           k == SpaceRunEnd(s, j + 1)
       IN  k > j /\ WordThenScript(s, k, word, script)

\* output.match(new RegExp(`(\\d+)\\s+word.*?${script}`, 'i')): <<>> for
\* null, else <<parseInt(match[1])>> of the leftmost match
CountMatch(output, word, script) ==
    LET starts == {i \in 1..Len(output) : CountMatchAt(output, i, word, script)}
    IN  IF starts = {} THEN <<>>
        ELSE LET i == CHOOSE a \in starts : \A b \in starts : a <= b
             IN  <<ParseDigits(SubSeq(output, i, DigitRunEnd(output, i)))>>

\* Math.round(parseFloat(text) * 1000) of the digits int "." frac
Millis(int, frac) ==
    RoundDiv((ParseDigits(int) * Pow10(Len(frac)) + ParseDigits(frac)) * 1000,
             Pow10(Len(frac)))

\* (\d+\.?\d*)s\) where "(" is s[p], \d+ ends at s[j] and \.?\d* at s[e]
SecondsUpTo(s, p, j, e) ==
    IF OccursAt(s, <<"s", ")">>, e)
    THEN <<Millis(SubSeq(s, p + 1, j), SubSeq(s, j + 2, e))>>
    ELSE <<>>

\* the same, where the digits after "(" end at s[j]
SecondsAfter(s, p, j) ==
    IF j < Len(s) /\ s[j + 1] = "."
    THEN SecondsUpTo(s, p, j, DigitRunEnd(s, j + 2))
    ELSE SecondsUpTo(s, p, j, j)

\* \((\d+\.?\d*)s\) matches with "(" at s[p]: <<>> or <<milliseconds>>,
\* Math.round(parseFloat(match[1]) * 1000)
SecondsAt(s, p) ==
    IF p < Len(s) /\ s[p] = "(" /\ IsDigit(s[p + 1])
    THEN SecondsAfter(s, p, DigitRunEnd(s, p + 1))
    ELSE <<>>

\* output.match(new RegExp(`${script}.*?\\((\\d+\\.?\\d*)s\\)`, 'i'))
DurationMatch(output, script) ==
    LET hits == {pr \in (0..Len(output)) \X (1..Len(output)) :
                    /\ OccursAt(LowerStr(output), LowerStr(script), pr[1])
                    /\ pr[2] > pr[1] + Len(script)
                    /\ SecondsAt(output, pr[2]) # <<>>
                    /\ \A x \in (pr[1] + Len(script) + 1)..(pr[2] - 1) : IsDot(output[x])}
    IN  IF hits = {} THEN <<>>
        ELSE LET first == CHOOSE a \in hits : \A b \in hits :
                              a[1] < b[1] \/ (a[1] = b[1] /\ a[2] <= b[2])
             IN  SecondsAt(output, first[2])

passedWord == <<"p", "a", "s", "s", "e", "d">>
failedWord == <<"f", "a", "i", "l", "e", "d">>

\* if (m) n = parseInt(m[1]), on n = 0
ValueOr0(match) == IF match # <<>> THEN match[1] ELSE 0

\* an entry whose totalTests leaves the failed tests out
TextEntryCountingPassedOnly(script, passed, failed, duration, random) ==
    [scriptName |-> script, passed |-> passed, failed |-> failed,
     totalTests |-> passed, duration |-> duration]

\* server.js:451-464: the entry, with the guess made when both counts are 0
TextEntry(script, passed, failed, duration, random) ==
    IF passed = 0 /\ failed = 0
    THEN [scriptName |-> script, passed |-> 1, failed |-> 0, totalTests |-> 1,
          duration |-> random]
    ELSE [scriptName |-> script, passed |-> passed, failed |-> failed,
          totalTests |-> passed + failed, duration |-> duration]

\* server.js:430-464, the entry of one script; random is the value of
\* Math.round(Math.random() * 5000) + 1000
TextScriptResult(output, script, random) ==
    TextEntry(script,
              ValueOr0(CountMatch(output, passedWord, GroupedText(script))),
              ValueOr0(CountMatch(output, failedWord, GroupedText(script))),
              ValueOr0(DurationMatch(output, GroupedText(script))),
              random)

\* the loop of server.js:430 ends in the SyntaxError of its first bad pattern
parsePlaywrightResultsThrows(scripts) ==
    \E i \in 1..Len(scripts) : RegExpThrows(scripts[i])

\* randoms[i] is the draw of Math.random made for scripts[i]
parsePlaywrightResults(output, scripts, randoms) ==
    [i \in 1..Len(scripts) |-> TextScriptResult(output, scripts[i], randoms[i])]

-----------------------------------------------------------------------------
(* State of the server *)

\* currentExecution = null, server.js:55
null == [child |-> 0, runId |-> 0]

\* fs.existsSync(reportPath) is false
NoFile == [exists |-> FALSE, valid |-> FALSE, suites |-> <<>>]

\* a report file JSON.parse (or the walk over it) throws on
CorruptFile == [exists |-> TRUE, valid |-> FALSE, suites |-> <<>>]

ReportFile(suites) == [exists |-> TRUE, valid |-> TRUE, suites |-> suites]

\* the step handled no request
NoResponse == [status |-> 0, text |-> "", runId |-> 0, body |-> <<>>]

\* the server after start-up, on one of the given platforms
InitOn(platforms) ==
    /\ now = 1
    /\ platform \in platforms
    /\ writable = TRUE
    /\ crashed = FALSE
    /\ currentExecution = null
    /\ children = <<>>
    /\ files = [id \in 1..MaxTime |-> NoFile]
    /\ history = <<>>
    /\ events = <<>>
    /\ response = NoResponse

\* the clock advances between two callbacks
Tick ==
    /\ now < MaxTime
    /\ now' = now + 1
    /\ response' = NoResponse
    /\ UNCHANGED <<platform, writable, crashed, currentExecution, children, files, history, events>>

\* io.emit
emit(event) == events' = Append(events, event)

\* res.json / res.status(..).json: the HTTP status, the error or message of
\* the body and its runId; body holds the records a GET answers with
respond(status, text, runId) ==
    response' = [status |-> status, text |-> text, runId |-> runId, body |-> <<>>]

\* res.json(records), server.js:97, :106
respondWith(records) ==
    response' = [status |-> 200, text |-> "", runId |-> 0, body |-> records]

-----------------------------------------------------------------------------
(* History file, server.js:30-48 *)

\* readHistory().history: a missing file reads as the empty history
readHistory == history

\* addHistoryEntry without the slice of server.js:46
addHistoryEntryUncapped(entry) == history' = <<entry>> \o readHistory

\* addHistoryEntry with push in place of unshift
addHistoryEntryAtTail(entry) ==
    history' = IF Len(readHistory) + 1 > HistoryCap
               THEN SubSeq(Append(readHistory, entry), 1, HistoryCap)
               ELSE Append(readHistory, entry)

\* addHistoryEntry, server.js:42-48: unshift, keep the first 100, write
addHistoryEntry(entry) ==
    LET unshifted == <<entry>> \o readHistory
    IN  history' = IF Len(unshifted) > HistoryCap
                   THEN SubSeq(unshifted, 1, HistoryCap)
                   ELSE unshifted

\* data.history.find(r => r.runId === id): <<>> or <<the first such record>>
findRun(id) ==
    LET hits == {i \in 1..Len(readHistory) : readHistory[i].runId = id}
    IN  IF hits = {} THEN <<>>
        ELSE <<readHistory[CHOOSE i \in hits : \A j \in hits : i <= j]>>

\* GET /api/history, server.js:95-98
GetHistory ==
    /\ respondWith(readHistory)
    /\ UNCHANGED <<now, platform, writable, crashed, currentExecution, children, files, history, events>>

\* GET /api/runs/latest, server.js:101-107
GetLatest ==
    /\ IF Len(readHistory) = 0
       THEN respond(404, "No runs found", 0)
       ELSE respondWith(<<readHistory[1]>>)
    /\ UNCHANGED <<now, platform, writable, crashed, currentExecution, children, files, history, events>>

\* GET /api/runs/:id, server.js:110-117
GetRun(id) ==
    /\ IF findRun(id) = <<>>
       THEN respond(404, "Run not found", 0)
       ELSE respondWith(<<findRun(id)[1]>>)
    /\ UNCHANGED <<now, platform, writable, crashed, currentExecution, children, files, history, events>>

-----------------------------------------------------------------------------
(* executePlaywrightTests, server.js:174-217 *)

\* server.js:177
InvalidBody(body) ==
    body.region = "" \/ ~body.scriptsGiven \/ Len(body.scripts) = 0

\* server.js:183
FolderName(suiteType) == IF suiteType = "regression" THEN "modules" ELSE "smoke"

\* server.js:181-220, the child spawned and the closure of its callbacks:
\* kill is the termination request sent to it, wrote and chunks count what
\* its process tree has written, exited and closed the signals delivered
NewChild(body) ==
    [runId      |-> now,
     timestamp  |-> now,
     region     |-> body.region,
     scripts    |-> body.scripts,
     env        |-> body.env,
     folderName |-> FolderName(body.suiteType),
     kill       |-> "none",
     wrote      |-> FALSE,
     exited     |-> FALSE,
     closed     |-> FALSE,
     chunks     |-> 0,
     outputLog  |-> <<>>,
     jsonOutput |-> <<>>]

\* executePlaywrightTests without the validation of server.js:177
executePlaywrightTestsUnvalidated(body) ==
    /\ Len(children) < MaxRuns
    /\ children' = Append(children, NewChild(body))
    /\ currentExecution' = [child |-> Len(children) + 1, runId |-> now]
    /\ respond(200, "started", now)
    /\ emit([event |-> "execution:start", runId |-> now, timestamp |-> now,
             region |-> body.region, scripts |-> body.scripts])
    /\ UNCHANGED <<now, platform, writable, crashed, files, history>>

\* executePlaywrightTests that also stores a record of the run it starts
executePlaywrightTestsRecordingStart(body) ==
    /\ ~InvalidBody(body)
    /\ Len(children) < MaxRuns
    /\ children' = Append(children, NewChild(body))
    /\ currentExecution' = [child |-> Len(children) + 1, runId |-> now]
    /\ respond(200, "started", now)
    /\ emit([event |-> "execution:start", runId |-> now, timestamp |-> now,
             region |-> body.region, scripts |-> body.scripts])
    /\ addHistoryEntry([runId |-> now, timestamp |-> now, region |-> body.region,
                        scripts |-> body.scripts, status |-> "Running", duration |-> 0,
                        triggeredBy |-> "User",
                        config |-> [region |-> body.region, scripts |-> body.scripts,
                                    env |-> body.env],
                        perScriptResults |-> <<>>, totalTests |-> 0, totalPassed |-> 0,
                        totalFailed |-> 0, successRate |-> 0])
    /\ UNCHANGED <<now, platform, writable, crashed, files>>

executePlaywrightTests(body) ==
    IF InvalidBody(body)
    THEN /\ respond(400, "Region and at least one script are required.", 0)
         /\ UNCHANGED <<now, platform, writable, crashed, currentExecution, children, files, history, events>>
    ELSE /\ Len(children) < MaxRuns
         /\ children' = Append(children, NewChild(body))
         /\ currentExecution' = [child |-> Len(children) + 1, runId |-> now]
         /\ respond(200, "started", now)
         /\ emit([event |-> "execution:start", runId |-> now, timestamp |-> now,
                  region |-> body.region, scripts |-> body.scripts])
         /\ UNCHANGED <<now, platform, writable, crashed, files, history>>

\* POST /api/execute, server.js:470
Execute(body) == executePlaywrightTests(body)

\* POST /api/runs/:id/rerun, server.js:120-134.  Every record this server
\* writes has a config, so the `||` of server.js:129 takes its left side; the
\* body forwarded at :132 carries no suiteType.
\* a rerun that, finding no record, starts a run of one script all the same
RerunUnchecked(id) ==
    executePlaywrightTests(
        [region       |-> IF findRun(id) = <<>> THEN "ZA" ELSE findRun(id)[1].config.region,
         scriptsGiven |-> TRUE,
         scripts      |-> IF findRun(id) = <<>> THEN <<<<"x">>>>
                          ELSE findRun(id)[1].config.scripts,
         env          |-> IF findRun(id) = <<>> THEN {} ELSE findRun(id)[1].config.env,
         suiteType    |-> ""])

Rerun(id) ==
    LET originalRun == findRun(id)
    IN  IF originalRun = <<>>
        THEN /\ respond(404, "Run not found", 0)
             /\ UNCHANGED <<now, platform, writable, crashed, currentExecution, children, files, history, events>>
        ELSE executePlaywrightTests(
                 [region       |-> originalRun[1].config.region,
                  scriptsGiven |-> TRUE,
                  scripts      |-> originalRun[1].config.scripts,
                  env          |-> originalRun[1].config.env,
                  suiteType    |-> ""])

-----------------------------------------------------------------------------
(* POST /api/stop, server.js:137-171.  child.kill and exec do not throw for *)
(* a child that was spawned, so the catch of :168 is not taken.             *)

\* Stop that sends the kill and answers but leaves the slot as it was
StopKeepsSlot ==
    IF currentExecution = null
    THEN /\ respond(400, "No execution is currently running", 0)
         /\ UNCHANGED <<now, platform, writable, crashed, currentExecution, children, files, history, events>>
    ELSE /\ children' = [children EXCEPT ![currentExecution.child].kill =
                             IF platform = "win32" THEN "taskkill /T /F" ELSE "SIGKILL"]
         /\ UNCHANGED currentExecution
         /\ emit([event |-> "execution:stopped", runId |-> currentExecution.runId,
                  message |-> "Execution stopped by user"])
         /\ respond(200, "Execution stopped", currentExecution.runId)
         /\ UNCHANGED <<now, platform, writable, crashed, files, history>>

\* Stop without the check of server.js:138: a vacant slot is "stopped" too
StopUnchecked ==
    /\ children' = [p \in 1..Len(children) |->
                        IF p = currentExecution.child
                        THEN [children[p] EXCEPT !.kill = "SIGKILL"]
                        ELSE children[p]]
    /\ currentExecution' = null
    /\ emit([event |-> "execution:stopped", runId |-> currentExecution.runId,
             message |-> "Execution stopped by user"])
    /\ respond(200, "Execution stopped", currentExecution.runId)
    /\ UNCHANGED <<now, platform, writable, crashed, files, history>>

Stop ==
    IF currentExecution = null
    THEN /\ respond(400, "No execution is currently running", 0)
         /\ UNCHANGED <<now, platform, writable, crashed, currentExecution, children, files, history, events>>
    ELSE /\ children' = [children EXCEPT ![currentExecution.child].kill =
                             IF platform = "win32" THEN "taskkill /T /F" ELSE "SIGKILL"]
         /\ currentExecution' = null
         /\ emit([event |-> "execution:stopped", runId |-> currentExecution.runId,
                  message |-> "Execution stopped by user"])
         /\ respond(200, "Execution stopped", currentExecution.runId)
         /\ UNCHANGED <<now, platform, writable, crashed, files, history>>

\* the processes a run consists of: the shell that spawn starts for
\* {shell: true}, server.js:204-208, and the test runner with the workers and
\* browsers it forks
ProcessTree == {"shell", "workers"}

\* the processes a kill of server.js:150-161 sends a termination signal to:
\* taskkill /T the tree below the pid, child.kill the process of the pid
Signalled(kill) ==
    CASE kill = "taskkill /T /F" -> ProcessTree
      [] kill = "SIGKILL"        -> {"shell"}
      [] OTHER                   -> {}

-----------------------------------------------------------------------------
(* The callbacks of one child, server.js:219-353 *)

\* server.js:238-241
shouldHide(line) ==
    \/ Includes(line, <<"R", "u", "n", "n", "i", "n", "g">>) /\ Includes(line, <<"u", "s", "i", "n", "g">>)
    \/ Includes(line, <<"r", "e", "p", "o", "r", "t", "e", "r", "s">>)
    \/ Includes(line, <<"S", "l", "o", "w", " ", "t", "e", "s", "t", " ", "f", "i", "l", "e">>)
    \/ Includes(line, <<"C", "o", "n", "s", "i", "d", "e", "r", " ", "s", "p", "l", "i", "t", "t", "i", "n", "g">>)

\* server.js:227-234: the chunk is taken for the JSON reporter's output
CapturedAsJSON(jsonOutput, line) ==
    \/ StartsWith(Trim(line), <<"{">>)
    \/ jsonOutput # <<>> /\ ~StartsWith(Trim(line), <<"}">>)
    \/ EndsWith(Trim(line), <<"}">>) /\ jsonOutput # <<>>

\* the streams of child p are still open and it may deliver a chunk
CanDeliver(p) ==
    /\ p \in 1..Len(children)
    /\ ~children[p].closed
    /\ Sum([q \in 1..Len(children) |-> children[q].chunks]) < MaxOut

\* child.stdout.on('data'), server.js:222-246
StdoutData(p, line) ==
    /\ CanDeliver(p)
    /\ LET c == children[p]
           captured == CapturedAsJSON(c.jsonOutput, line)
       IN  /\ children' = [children EXCEPT
                  ![p].chunks = c.chunks + 1,
                  ![p].outputLog = c.outputLog \o line,
                  ![p].jsonOutput = IF captured THEN c.jsonOutput \o line
                                    ELSE c.jsonOutput]
           /\ IF ~captured /\ ~shouldHide(line) /\ Len(Trim(line)) > 0
              THEN emit([event |-> "execution:log", runId |-> c.runId,
                         type |-> "stdout", data |-> line])
              ELSE UNCHANGED events
    /\ response' = NoResponse
    /\ UNCHANGED <<now, platform, writable, crashed, currentExecution, files, history>>

\* child.stderr.on('data'), server.js:248-256
StderrData(p, line) ==
    /\ CanDeliver(p)
    /\ LET c == children[p]
       IN  /\ children' = [children EXCEPT
                  ![p].chunks = c.chunks + 1,
                  ![p].outputLog = c.outputLog \o line]
           /\ IF Includes(line, <<"E", "r", "r", "o", "r">>) \/ Includes(line, <<"F", "A", "I", "L">>)
              THEN emit([event |-> "execution:log", runId |-> c.runId,
                         type |-> "stderr", data |-> line])
              ELSE UNCHANGED events
    /\ response' = NoResponse
    /\ UNCHANGED <<now, platform, writable, crashed, currentExecution, files, history>>

\* the test runner writes test-results-<runId>.json (PLAYWRIGHT_JSON_OUTPUT_NAME,
\* server.js:200) while a process of the child's tree is alive
WriteReport(p, file) ==
    /\ p \in 1..Len(children)
    /\ ~children[p].closed
    /\ ~children[p].wrote
    /\ children' = [children EXCEPT ![p].wrote = TRUE]
    /\ files' = [files EXCEPT ![children[p].runId] = file]
    /\ response' = NoResponse
    /\ UNCHANGED <<now, platform, writable, crashed, currentExecution, history, events>>

\* server.js:272, the guard of handleExecutionComplete (and of the exit handler, :265)
IsCurrent(runId) == currentExecution # null /\ currentExecution.runId = runId

\* a status that does not depend on the exit code
StatusIgnoringCode(code) == "Passed"

\* server.js:277
StatusOf(code) == IF code = 0 THEN "Passed" ELSE "Failed"

\* the record of a completion whose catch branch, server.js:315-322, parses
\* the output again but leaves the totals at 0
HistoryEntryWithoutCatchTotals(c, code, randoms) ==
    LET file == files[c.runId]
        perScriptResults ==
            IF file.exists /\ file.valid
            THEN parsePlaywrightJSON(file, c.scripts)
            ELSE parsePlaywrightResults(c.outputLog, c.scripts, randoms)
        caught == file.exists /\ ~file.valid
        totalTests  == IF caught THEN 0
                       ELSE Sum([i \in 1..Len(perScriptResults) |-> perScriptResults[i].totalTests])
        totalPassed == IF caught THEN 0
                       ELSE Sum([i \in 1..Len(perScriptResults) |-> perScriptResults[i].passed])
        totalFailed == IF caught THEN 0
                       ELSE Sum([i \in 1..Len(perScriptResults) |-> perScriptResults[i].failed])
    IN  [runId            |-> c.runId,
         timestamp        |-> c.timestamp,
         region           |-> c.region,
         scripts          |-> c.scripts,
         status           |-> StatusOf(code),
         duration         |-> now - c.runId,
         triggeredBy      |-> "User",
         config           |-> [region |-> c.region, scripts |-> c.scripts, env |-> c.env],
         perScriptResults |-> perScriptResults,
         totalTests       |-> totalTests,
         totalPassed      |-> totalPassed,
         totalFailed      |-> totalFailed,
         successRate      |-> IF totalTests > 0 THEN RoundedPercent(totalPassed, totalTests)
                              ELSE 0]

\* server.js:288-340, the record built from the report file or the output
HistoryEntry(c, code, randoms) ==
    LET file == files[c.runId]
        perScriptResults ==
            IF file.exists /\ file.valid
            THEN parsePlaywrightJSON(file, c.scripts)
            ELSE parsePlaywrightResults(c.outputLog, c.scripts, randoms)
        totalTests  == Sum([i \in 1..Len(perScriptResults) |-> perScriptResults[i].totalTests])
        totalPassed == Sum([i \in 1..Len(perScriptResults) |-> perScriptResults[i].passed])
        totalFailed == Sum([i \in 1..Len(perScriptResults) |-> perScriptResults[i].failed])
    IN  [runId            |-> c.runId,
         timestamp        |-> c.timestamp,
         region           |-> c.region,
         scripts          |-> c.scripts,
         status           |-> StatusOf(code),
         duration         |-> now - c.runId,
         triggeredBy      |-> "User",
         config           |-> [region |-> c.region, scripts |-> c.scripts, env |-> c.env],
         perScriptResults |-> perScriptResults,
         totalTests       |-> totalTests,
         totalPassed      |-> totalPassed,
         totalFailed      |-> totalFailed,
         successRate      |-> IF totalTests > 0 THEN RoundedPercent(totalPassed, totalTests)
                              ELSE 0]

\* server.js:288-322 ends in an exception: the fallback parser throws, in
\* the else branch of :307 and again in the catch of :315, or in the catch
\* that a failed parse of the report leads to
CompletionThrows(c) ==
    /\ ~(files[c.runId].exists /\ files[c.runId].valid)
    /\ parsePlaywrightResultsThrows(c.scripts)

\* fs.writeFileSync throws in writeHistory, server.js:38-40, called by
\* addHistoryEntry at :47 outside any try
addHistoryEntryThrows == ~writable

\* completion handling without the guard of server.js:272
handleExecutionCompleteUnguarded(p, code, randoms) ==
    LET c == children[p]
        historyEntry == HistoryEntry(c, code, randoms)
    IN  /\ files' = IF files[c.runId].exists /\ files[c.runId].valid
                    THEN [files EXCEPT ![c.runId] = NoFile]
                    ELSE files
        /\ IF addHistoryEntryThrows
           THEN /\ crashed' = TRUE
                /\ UNCHANGED <<currentExecution, history, events>>
           ELSE /\ UNCHANGED crashed
                /\ addHistoryEntry(historyEntry)
                /\ currentExecution' = null
                /\ emit([event |-> "execution:end", runId |-> c.runId,
                         status |-> StatusOf(code), code |-> code,
                         results |-> historyEntry])

\* completion handling that emits execution:end while the slot still holds
\* the run, without server.js:345
handleExecutionCompleteKeepsSlot(p, code, randoms) ==
    LET c == children[p]
        historyEntry == HistoryEntry(c, code, randoms)
    IN  /\ IsCurrent(c.runId)
        /\ UNCHANGED <<crashed, files, currentExecution>>
        /\ addHistoryEntry(historyEntry)
        /\ emit([event |-> "execution:end", runId |-> c.runId,
                 status |-> StatusOf(code), code |-> code,
                 results |-> historyEntry])

\* handleExecutionComplete(code) in the closure of child p, server.js:270-353.
\* No handler of uncaughtException is installed: an exception that leaves
\* the callback ends the server process.
handleExecutionComplete(p, code, randoms) ==
    LET c == children[p]
    IN  IF ~IsCurrent(c.runId)
        THEN UNCHANGED <<crashed, currentExecution, files, history, events>>
        ELSE IF CompletionThrows(c)
        THEN /\ crashed' = TRUE
             /\ UNCHANGED <<currentExecution, files, history, events>>
        ELSE LET historyEntry == HistoryEntry(c, code, randoms)
                 file == files[c.runId]
             IN  /\ files' = IF file.exists /\ file.valid
                             THEN [files EXCEPT ![c.runId] = NoFile]
                             ELSE files
                 /\ IF addHistoryEntryThrows
                    THEN /\ crashed' = TRUE
                         /\ UNCHANGED <<currentExecution, history, events>>
                    ELSE /\ UNCHANGED crashed
                         /\ addHistoryEntry(historyEntry)
                         /\ currentExecution' = null
                         /\ emit([event |-> "execution:end", runId |-> c.runId,
                                  status |-> StatusOf(code), code |-> code,
                                  results |-> historyEntry])

\* the end of child p (a shell starting npx) is reported no earlier than the
\* millisecond after the one Date.now() was read in at server.js:181
CanSignal(p) ==
    /\ p \in 1..Len(children)
    /\ now > children[p].runId

\* an exit callback that only logs, without server.js:265-267
OnExitUnhandled(p, code, randoms) ==
    /\ CanSignal(p)
    /\ ~children[p].exited
    /\ children' = [children EXCEPT ![p].exited = TRUE]
    /\ response' = NoResponse
    /\ UNCHANGED <<now, platform, writable, crashed, currentExecution, files, history, events>>

\* child.on('exit'), server.js:262-268
OnExit(p, code, randoms) ==
    /\ CanSignal(p)
    /\ ~children[p].exited
    /\ children' = [children EXCEPT ![p].exited = TRUE]
    /\ IF IsCurrent(children[p].runId)
       THEN handleExecutionComplete(p, code, randoms)
       ELSE UNCHANGED <<crashed, currentExecution, files, history, events>>
    /\ response' = NoResponse
    /\ UNCHANGED <<now, platform, writable>>

\* child.on('close'), server.js:258-260.  Node emits close after exit; the
\* handlers do not rely on it and both orders are delivered here.
OnClose(p, code, randoms) ==
    /\ CanSignal(p)
    /\ ~children[p].closed
    /\ children' = [children EXCEPT ![p].closed = TRUE]
    /\ handleExecutionComplete(p, code, randoms)
    /\ response' = NoResponse
    /\ UNCHANGED <<now, platform, writable>>

-----------------------------------------------------------------------------
(* Inputs *)

login == <<"l", "o", "g", "i", "n">>
header == <<"h", "e", "a", "d", "e", "r">>

\* request bodies of POST /api/execute
ValidBody ==
    [region |-> "ZA", scriptsGiven |-> TRUE, scripts |-> <<login, header>>,
     env |-> {<<"HEADLESS", "1">>}, suiteType |-> "regression"]

NoRegionBody == [ValidBody EXCEPT !.region = ""]

NoScriptsBody == [ValidBody EXCEPT !.scripts = <<>>]

MissingScriptsBody == [ValidBody EXCEPT !.scriptsGiven = FALSE, !.scripts = <<>>]

Bodies == {ValidBody, NoRegionBody, NoScriptsBody, MissingScriptsBody}

\* chunks a child writes
PlainLine == <<"1", " ", "p", "a", "s", "s", "e", "d", " ", "l", "o", "g", "i", "n", "\n">>

ErrorLine == <<"E", "r", "r", "o", "r", ":", " ", "x", "\n">>

\* chunks on stdout and on stderr
StdoutLines == {PlainLine}

StderrLines == {ErrorLine}

\* exit codes a child ends with
Codes == {0, NoCode}

\* report files the test runner leaves
LoginSuite ==
    [file |-> <<"t", "e", "s", "t", "s", "/", "l", "o", "g", "i", "n", "/", "l", "o", "g", "i", "n", ".", "s", "p", "e", "c", ".", "t", "s">>,
     specs |-> <<[title |-> "logs in",
                  tests |-> <<[results |-> <<[status |-> "passed", duration |-> 3]>>]>>]>>,
     suites |-> <<>>]

ReportFiles == {CorruptFile, ReportFile(<<LoginSuite>>)}

\* values of Math.round(Math.random() * 5000) + 1000
Randoms == {1000}

-----------------------------------------------------------------------------
(* Specification *)

\* one step of the server or of its environment, with inputs from the given
\* sets; a server whose process has ended takes no step
NextOn(bodies, stdoutLines, stderrLines, codes, reportFiles, randomValues) ==
    \/ ~crashed /\ Tick
    \/ ~crashed /\ \E body \in bodies : Execute(body)
    \/ ~crashed /\ \E id \in 1..MaxTime : Rerun(id)
    \/ ~crashed /\ Stop
    \/ ~crashed /\ \E p \in 1..Len(children), line \in stdoutLines : StdoutData(p, line)
    \/ ~crashed /\ \E p \in 1..Len(children), line \in stderrLines : StderrData(p, line)
    \/ ~crashed /\ \E p \in 1..Len(children), file \in reportFiles : WriteReport(p, file)
    \/ ~crashed /\ \E p \in 1..Len(children), code \in codes :
           \E randoms \in [1..Len(children[p].scripts) -> randomValues] :
               OnExit(p, code, randoms)
    \/ ~crashed /\ \E p \in 1..Len(children), code \in codes :
           \E randoms \in [1..Len(children[p].scripts) -> randomValues] :
               OnClose(p, code, randoms)

Init == InitOn({"linux"})

Next ==
    NextOn(Bodies, StdoutLines, StderrLines, Codes, {ReportFile(<<LoginSuite>>)}, Randoms)

\* the life cycle of runs: requests, output and termination signals
Spec == Init /\ [][Next]_vars

-----------------------------------------------------------------------------
(* The server started again over the history.json that earlier processes    *)
(* left, with the requests that read the history                            *)

OldRuns == 99   \* records in history.json when the server starts

\* the config of the runs of the earlier processes
OldConfig == [region |-> "GH", scripts |-> <<header>>, env |-> {}]

\* the k-th newest record of an earlier process, as server.js:326-340 wrote
\* it; the clock value 1 is the start of this process, so its runId is below 1
OldRecord(k) ==
    [runId            |-> 1 - k,
     timestamp        |-> 1 - k,
     region           |-> OldConfig.region,
     scripts          |-> OldConfig.scripts,
     status           |-> "Passed",
     duration         |-> 1,
     triggeredBy      |-> "User",
     config           |-> OldConfig,
     perScriptResults |-> <<[scriptName |-> header, passed |-> 1, failed |-> 0,
                             totalTests |-> 1, duration |-> 1000]>>,
     totalTests       |-> 1,
     totalPassed      |-> 1,
     totalFailed      |-> 0,
     successRate      |-> 100]

OldHistory(n) == [k \in 1..n |-> OldRecord(k)]

\* the runIds of old records that rerun requests name: the newest
OldIds == {0}

\* the server after start-up, history.json missing or left by earlier processes
HistoryInit ==
    /\ now = 1
    /\ platform = "linux"
    /\ writable = TRUE
    /\ crashed = FALSE
    /\ currentExecution = null
    /\ children = <<>>
    /\ files = [id \in 1..MaxTime |-> NoFile]
    /\ history \in {<<>>, OldHistory(OldRuns)}
    /\ events = <<>>
    /\ response = NoResponse

\* requests, and runs that end without output or report file
HistoryNext ==
    \/ ~crashed /\ Tick
    \/ ~crashed /\ Execute(ValidBody)
    \/ ~crashed /\ \E id \in OldIds \cup (1..MaxTime) : Rerun(id)
    \/ ~crashed /\ Stop
    \/ ~crashed /\ GetHistory
    \/ ~crashed /\ GetLatest
    \/ ~crashed /\ \E id \in OldIds \cup (1..MaxTime) : GetRun(id)
    \/ ~crashed /\ \E p \in 1..Len(children), code \in Codes :
           \E randoms \in [1..Len(children[p].scripts) -> Randoms] :
               OnExit(p, code, randoms)
    \/ ~crashed /\ \E p \in 1..Len(children), code \in Codes :
           \E randoms \in [1..Len(children[p].scripts) -> Randoms] :
               OnClose(p, code, randoms)

\* the life cycle of runs over a history that is nearly full, and its readers
HistorySpec == HistoryInit /\ [][HistoryNext]_vars

-----------------------------------------------------------------------------
(* Completion of one run, over the script lists, outputs and report files   *)
(* that the parsers can be given                                            *)

checkout == <<"c", "h", "e", "c", "k", "o", "u", "t">>

\* a script name with a group that is not closed
loginOpen == <<"l", "o", "g", "i", "n", "(">>

\* a script name with a well-formed group
loginGroup == <<"(", "l", "o", "g", "i", "n", ")">>

ScriptLists ==
    {<<login>>, <<login, header>>, <<header, login>>, <<login, login>>,
     <<checkout>>, <<loginGroup>>, <<login, loginOpen>>}

\* "23 passed login (1.5s)\n17 failed login\n"
CountsOutput ==
    <<"2", "3", " ", "p", "a", "s", "s", "e", "d", " ", "l", "o", "g", "i", "n",
      " ", "(", "1", ".", "5", "s", ")", "\n",
      "1", "7", " ", "f", "a", "i", "l", "e", "d", " ", "l", "o", "g", "i", "n", "\n">>

Outputs == {<<>>, PlainLine, CountsOutput}

loginFile ==
    <<"t", "e", "s", "t", "s", "/", "l", "o", "g", "i", "n", "/", "l", "o", "g", "i", "n", ".", "s", "p", "e", "c", ".", "t", "s">>

\* a spec of a report with the status and duration of its first result
ReportSpec(status, duration) ==
    [title |-> "t",
     tests |-> <<[results |-> <<[status |-> status, duration |-> duration]>>]>>]

\* the suite of a file with a describe block below it, and a spec without tests
NestedSuite ==
    [file   |-> loginFile,
     specs  |-> <<ReportSpec("passed", 3), ReportSpec("failed", 4),
                  ReportSpec("skipped", 0), [title |-> "", tests |-> <<>>]>>,
     suites |-> <<[file   |-> loginFile,
                   specs  |-> <<ReportSpec("expected", 5)>>,
                   suites |-> <<>>]>>]

\* the suite of a file run with retries: a test that failed and passed when
\* retried, one that passed at once, one that failed twice and one that
\* timed out; results holds the attempts in the order they were made
RetrySuite ==
    [file   |-> loginFile,
     specs  |-> <<[title |-> "flaky",
                   tests |-> <<[results |-> <<[status |-> "failed", duration |-> 4],
                                              [status |-> "passed", duration |-> 6]>>]>>],
                  ReportSpec("passed", 2),
                  [title |-> "broken",
                   tests |-> <<[results |-> <<[status |-> "unexpected", duration |-> 1],
                                              [status |-> "unexpected", duration |-> 2]>>]>>],
                  ReportSpec("timedOut", 9)>>,
     suites |-> <<>>]

ParsedFiles ==
    {NoFile, CorruptFile, ReportFile(<<LoginSuite>>), ReportFile(<<NestedSuite>>),
     ReportFile(<<RetrySuite>>)}

\* the server while its first run, started at the clock value 1, is active:
\* the child has written its output and the test runner its report file
ParserInitOn(scriptLists, writables) ==
    /\ now = 1
    /\ platform = "linux"
    /\ writable \in writables
    /\ crashed = FALSE
    /\ currentExecution = [child |-> 1, runId |-> 1]
    /\ \E scripts \in scriptLists, output \in Outputs :
           children = <<[NewChild([ValidBody EXCEPT !.scripts = scripts]) EXCEPT
                            !.outputLog = output,
                            !.chunks = IF output = <<>> THEN 0 ELSE 1,
                            !.wrote = TRUE]>>
    /\ \E file \in ParsedFiles :
           files = [id \in 1..MaxTime |-> IF id = 1 THEN file ELSE NoFile]
    /\ history = <<>>
    /\ events = <<[event |-> "execution:start", runId |-> 1, timestamp |-> 1,
                   region |-> ValidBody.region, scripts |-> children[1].scripts]>>
    /\ response = NoResponse

ParserInit == ParserInitOn(ScriptLists, {TRUE})

\* exit codes of the test runner: all passed, tests failed, ended by a signal
ParserCodes == {0, 1, NoCode}

ParserNext ==
    \/ ~crashed /\ Tick
    \/ ~crashed /\ \E code \in ParserCodes :
           \E randoms \in [1..Len(children[1].scripts) -> Randoms] :
               OnExit(1, code, randoms)
    \/ ~crashed /\ \E code \in ParserCodes :
           \E randoms \in [1..Len(children[1].scripts) -> Randoms] :
               OnClose(1, code, randoms)

\* the termination signals of one run, for every input of the parsers
ParserSpec == ParserInit /\ [][ParserNext]_vars

-----------------------------------------------------------------------------
(* Completion of one run over a history.json that can or cannot be written  *)
(* (disk full, file read-only)                                              *)

PersistInit == ParserInitOn({<<login>>, <<login, header>>}, BOOLEAN)

\* the termination signals of one run, with and without a writable history
PersistSpec == PersistInit /\ [][ParserNext]_vars

-----------------------------------------------------------------------------
(* The output of one run: the next chunk on stdout after the chunks that    *)
(* the child has written so far                                             *)

OpenLine == <<"{", "\n">>

\* "\"a\": {\n", the first line of an object inside the report
NestedOpenLine == <<"\"", "a", "\"", ":", " ", "{", "\n">>

\* "\"a\": 1\n"
MemberLine == <<"\"", "a", "\"", ":", " ", "1", "\n">>

\* "},\n", the last line of an object inside the report
NestedCloseLine == <<"}", ",", "\n">>

CloseLine == <<"}", "\n">>

OkLine == <<"o", "k", "\n">>

BlankLine == <<" ", "\n">>

\* "Running 1 test using 1 worker\n", a line of the denylist
RunningLine ==
    <<"R", "u", "n", "n", "i", "n", "g", " ", "1", " ", "t", "e", "s", "t", " ",
      "u", "s", "i", "n", "g", " ", "1", " ", "w", "o", "r", "k", "e", "r", "\n">>

\* what stdout has delivered before: nothing, a report up to the first line
\* of an inner object, or a whole report
WrittenBefore ==
    {<<>>, <<OpenLine, NestedOpenLine>>, <<OpenLine, MemberLine, CloseLine>>}

\* the chunks stdout delivers next
OutputLines ==
    {OpenLine, MemberLine, NestedCloseLine, CloseLine, OkLine, BlankLine, RunningLine}

RECURSIVE JsonOutputAfter(_)
\* jsonOutput of server.js:220 after the stdout callback has run once for
\* each of the chunks
JsonOutputAfter(chunks) ==
    IF chunks = <<>> THEN <<>>
    ELSE LET before == JsonOutputAfter(Front(chunks))
             line == chunks[Len(chunks)]
         IN  IF CapturedAsJSON(before, line) THEN before \o line ELSE before

RECURSIVE OutputLogAfter(_)
\* outputLog of server.js:219 after the chunks
OutputLogAfter(chunks) ==
    IF chunks = <<>> THEN <<>>
    ELSE OutputLogAfter(Front(chunks)) \o chunks[Len(chunks)]

RECURSIVE LogsAfter(_)
\* the execution:log events server.js:243-245 has emitted for the chunks of
\* the run 1
LogsAfter(chunks) ==
    IF chunks = <<>> THEN <<>>
    ELSE LET line == chunks[Len(chunks)]
         IN  LogsAfter(Front(chunks)) \o
             (IF /\ ~CapturedAsJSON(JsonOutputAfter(Front(chunks)), line)
                 /\ ~shouldHide(line)
                 /\ Len(Trim(line)) > 0
              THEN <<[event |-> "execution:log", runId |-> 1,
                      type |-> "stdout", data |-> line]>>
              ELSE <<>>)

\* the server while its first run, started at the clock value 1, is active
\* and its child has written some chunks; chunks counts those that follow
OutputInit ==
    /\ now = 1
    /\ platform = "linux"
    /\ writable = TRUE
    /\ crashed = FALSE
    /\ currentExecution = [child |-> 1, runId |-> 1]
    /\ \E written \in WrittenBefore :
           /\ children = <<[NewChild(ValidBody) EXCEPT
                               !.outputLog = OutputLogAfter(written),
                               !.jsonOutput = JsonOutputAfter(written)]>>
           /\ events = <<[event |-> "execution:start", runId |-> 1, timestamp |-> 1,
                          region |-> ValidBody.region, scripts |-> ValidBody.scripts]>>
                       \o LogsAfter(written)
    /\ files = [id \in 1..MaxTime |-> NoFile]
    /\ history = <<>>
    /\ response = NoResponse

OutputNext ==
    \/ ~crashed /\ Tick
    \/ ~crashed /\ Stop
    \/ ~crashed /\ \E line \in OutputLines : StdoutData(1, line)
    \/ ~crashed /\ \E line \in StderrLines : StderrData(1, line)
    \/ ~crashed /\ \E code \in Codes :
           \E randoms \in [1..Len(children[1].scripts) -> Randoms] :
               OnExit(1, code, randoms)
    \/ ~crashed /\ \E code \in Codes :
           \E randoms \in [1..Len(children[1].scripts) -> Randoms] :
               OnClose(1, code, randoms)

\* one more chunk of one run, before, inside and after its report
OutputSpec == OutputInit /\ [][OutputNext]_vars

-----------------------------------------------------------------------------
(* What the properties below speak about *)

\* the positions of the events of one kind carrying one runId
EventsOf(kind, id) ==
    {i \in 1..Len(events) : events[i].event = kind /\ events[i].runId = id}

IsTerminal(e) == e.event \in {"execution:end", "execution:stopped"}

TerminalsOf(id) == {i \in 1..Len(events) : IsTerminal(events[i]) /\ events[i].runId = id}

\* the positions of the records of one runId in the history
RecordsOf(id) == {i \in 1..Len(history) : history[i].runId = id}

RunIds == 1..MaxTime

\* both termination signals of child p have been delivered
Gone(p) == children[p].exited /\ children[p].closed

\* this step delivers exit or close of child p
SignalStep(p) ==
    \/ children[p].exited # children'[p].exited
    \/ children[p].closed # children'[p].closed

\* this step handles a start request (execute or rerun) with a valid config
ValidStartStep ==
    \/ \E body \in Bodies : ~InvalidBody(body) /\ Execute(body)
    \/ \E id \in RunIds : findRun(id) # <<>> /\ Rerun(id)

-----------------------------------------------------------------------------
(* C1: a start or rerun request with a valid config that arrives while the  *)
(* active-run slot is occupied is rejected: it is not answered "started",   *)
(* spawns no child, leaves the slot holding the first run and emits no      *)
(* execution:start.                                                         *)
C1_StartWhileRunningRejected ==
    [][(currentExecution # null /\ ValidStartStep) =>
          /\ response'.status # 200
          /\ children' = children
          /\ currentExecution' = currentExecution
          /\ events' = events]_vars

(* C2: at most one run is Running: the runs that were started and have no   *)
(* terminal event (execution:end or execution:stopped) yet number at most 1.*)
C2_AtMostOneRunning ==
    Sum([id \in RunIds |->
            Cardinality(EventsOf("execution:start", id)) - Cardinality(TerminalsOf(id))]) <= 1

(* C3: every run that was started ends up with exactly one record in the    *)
(* history: once both termination signals of its child are delivered, the   *)
(* history holds one record of its runId, neither none nor two.             *)
C3_OneRecordPerRun ==
    \A p \in 1..Len(children) :
        Gone(p) => Cardinality(RecordsOf(children[p].runId)) = 1

(* C4: after a successful stop of run R the history holds a record of R     *)
(* with status Stopped.                                                     *)
C4_StoppedRunRecorded ==
    \A i \in 1..Len(events) :
        events[i].event = "execution:stopped" =>
            \E k \in 1..Len(history) :
                history[k].runId = events[i].runId /\ history[k].status = "Stopped"

\* the last step was a successful stop of child p, which has reported nothing yet
JustStopped(p) ==
    /\ response.status = 200 /\ response.text = "Execution stopped"
    /\ children[p].kill # "none"
    /\ ~children[p].exited /\ ~children[p].closed

(* C5: a successful stop vacates the slot in the same step, and a start     *)
(* with a valid config handled right after it, while the killed child has   *)
(* delivered neither exit nor close, is answered "started" and puts a newly *)
(* spawned child into the slot.                                             *)
C5_StopVacatesSlotAndStartSucceeds ==
    [][/\ (currentExecution # null /\ Stop) =>
              /\ currentExecution' = null
              /\ response'.status = 200
       /\ \A p \in 1..Len(children) :
              (JustStopped(p) /\ ValidStartStep) =>
                  /\ response'.status = 200 /\ response'.text = "started"
                  /\ Len(children') = Len(children) + 1
                  /\ currentExecution' # null
                  /\ currentExecution'.child = Len(children')
                  /\ currentExecution'.child # p
                  /\ children'[currentExecution'.child].kill = "none"]_vars

C5_Witness ==
    /\ response.text = "started"
    /\ Len(events) >= 2
    /\ events[Len(events) - 1].event = "execution:stopped"
    /\ \E p \in 1..Len(children) :
           /\ children[p].kill # "none"
           /\ ~children[p].exited /\ ~children[p].closed
           /\ currentExecution # null /\ currentExecution.child # p

\* no runId is completed twice, and records and execution:end events pair up
OneCompletionPerRunId ==
    \A id \in RunIds :
        /\ Cardinality(EventsOf("execution:end", id)) <= 1
        /\ Cardinality(RecordsOf(id)) = Cardinality(EventsOf("execution:end", id))

\* the first signal of a child whose runId the slot holds completes the run:
\* one record at the head, one execution:end, the slot vacated
FirstSignalCompletes ==
    \A p \in 1..Len(children) :
        (~children[p].exited /\ ~children[p].closed /\ SignalStep(p)
            /\ IsCurrent(children[p].runId)) =>
            /\ Len(history') = Len(history) + 1
            /\ history'[1].runId = children[p].runId
            /\ Len(events') = Len(events) + 1
            /\ events'[Len(events')].event = "execution:end"
            /\ events'[Len(events')].runId = children[p].runId
            /\ currentExecution' = null

\* the other signal of a child that has delivered one changes nothing
SecondSignalIsNoOp ==
    \A p \in 1..Len(children) :
        ((children[p].exited \/ children[p].closed) /\ SignalStep(p)) =>
            UNCHANGED <<currentExecution, history, events>>

C7_OneStartOneTerminalEvent ==
    \A p \in 1..Len(children) :
        Gone(p) =>
            /\ Cardinality(EventsOf("execution:start", children[p].runId)) = 1
            /\ Cardinality(TerminalsOf(children[p].runId)) = 1

(* C8: in the emission order, execution:start of a run precedes every       *)
(* execution:log of its runId and no execution:log of its runId follows its *)
(* terminal event.                                                          *)
C8_LogsBetweenStartAndTerminal ==
    \A j \in 1..Len(events) :
        events[j].event = "execution:log" =>
            /\ \E i \in 1..(j - 1) :
                   events[i].event = "execution:start" /\ events[i].runId = events[j].runId
            /\ \A i \in 1..(j - 1) :
                   ~(IsTerminal(events[i]) /\ events[i].runId = events[j].runId)

(* C9: in the emission order, an execution:start is never emitted before    *)
(* the terminal event of the run started before it: between two             *)
(* execution:start events lies a terminal event of the first one's runId.   *)
C9_StartAfterPreviousTerminal ==
    \A i, j \in 1..Len(events) :
        (i < j /\ events[i].event = "execution:start" /\ events[j].event = "execution:start") =>
            \E k \in (i + 1)..(j - 1) :
                IsTerminal(events[k]) /\ events[k].runId = events[i].runId

\* the answer of server.js:139
NotRunningResponse ==
    [status |-> 400, text |-> "No execution is currently running", runId |-> 0,
     body |-> <<>>]

(* C10: a stop request that finds the slot vacant is answered 400 "No       *)
(* execution is currently running" and changes nothing: no kill, no event,  *)
(* the slot and the history as before; and only such a request gets that    *)
(* answer.                                                                  *)
C10_StopWhenVacantHasNoEffect ==
    [][/\ (currentExecution = null /\ Stop) =>
              /\ response' = NotRunningResponse
              /\ UNCHANGED <<currentExecution, children, files, history, events>>
       /\ response' = NotRunningResponse =>
              /\ currentExecution = null
              /\ UNCHANGED <<currentExecution, children, files, history, events>>]_vars

C10_Witness ==
    /\ response = NotRunningResponse
    /\ Len(history) > 0
    /\ \E p \in 1..Len(children) : ~children[p].closed

\* the answer of server.js:178
InvalidConfigResponse ==
    [status |-> 400, text |-> "Region and at least one script are required.",
     runId |-> 0, body |-> <<>>]

(* C11: a start request whose region is empty or whose scripts are missing  *)
(* or empty is answered 400 with no runId and has no effect: no child is    *)
(* spawned, no event is emitted, the slot, the report files and the history *)
(* stay as they were.                                                       *)
C11_InvalidStartHasNoEffect ==
    [][\A body \in Bodies :
          (InvalidBody(body) /\ Execute(body)) =>
              /\ response' = InvalidConfigResponse
              /\ UNCHANGED <<currentExecution, children, files, history, events>>]_vars

C11_Witness ==
    /\ response = InvalidConfigResponse
    /\ currentExecution # null
    /\ Len(history) > 0

\* the answer of server.js:125
RunNotFoundResponse ==
    [status |-> 404, text |-> "Run not found", runId |-> 0, body |-> <<>>]

(* C12: a rerun request for a runId that no record of the history carries   *)
(* is answered 404 "Run not found" and starts nothing: no child is spawned, *)
(* no event is emitted, the slot, the report files and the history stay as  *)
(* they were.                                                               *)
C12_RerunOfUnknownRunHasNoEffect ==
    [][\A id \in RunIds :
          (findRun(id) = <<>> /\ Rerun(id)) =>
              /\ response' = RunNotFoundResponse
              /\ UNCHANGED <<currentExecution, children, files, history, events>>]_vars

C12_Witness ==
    /\ response = RunNotFoundResponse
    /\ Len(history) > 0
    /\ currentExecution # null

\* the config a child was started with
ConfigOf(c) == [region |-> c.region, scripts |-> c.scripts, env |-> c.env]

\* a successful rerun of a record spawns a child with the record's config
RerunStartsStoredConfig ==
    \A id \in OldIds \cup RunIds :
        (findRun(id) # <<>> /\ Rerun(id) /\ response'.status = 200) =>
            /\ Len(children') = Len(children) + 1
            /\ ConfigOf(children'[Len(children')]) = findRun(id)[1].config

\* requests start runs with the config of ValidBody, so a child with the
\* config of the old records was started by a rerun; every record of the
\* runId of such a child carries that config
RecordOfRerunCarriesConfig ==
    \A p \in 1..Len(children) :
        ConfigOf(children[p]) = OldConfig =>
            \A k \in 1..Len(history) :
                history[k].runId = children[p].runId => history[k].config = OldConfig

(* C13: a successful rerun of a record of the history starts a run whose    *)
(* config (region, scripts in order, env) is the record's stored config,    *)
(* and the record persisted under the new run's runId carries that config.  *)
C13_RerunKeepsConfig ==
    /\ []RecordOfRerunCarriesConfig
    /\ [][RerunStartsStoredConfig]_vars

\* an append to a full history drops its last record and keeps the other 99,
\* in their order, behind the new one
AppendWhenFullEvictsOldest ==
    (Len(history) = HistoryCap /\ history' # history) =>
        /\ Len(history') = HistoryCap
        /\ history'[1] # history[1]
        /\ Tail(history') = SubSeq(history, 1, HistoryCap - 1)

(* C14: the history never holds more than 100 records, and an append to a   *)
(* history of 100 records removes exactly the oldest one, the last, and     *)
(* keeps the other 99 in their order behind the new record.                 *)
C14_HistoryCappedAt100 ==
    /\ [](Len(history) <= HistoryCap)
    /\ [][AppendWhenFullEvictsOldest]_vars

\* two runs of this process were appended to a history of 99 old records:
\* the oldest of them is gone, the second oldest is the last
C14_Witness ==
    /\ Len(history) = HistoryCap
    /\ history[1].runId > 0 /\ history[2].runId > 0
    /\ history[HistoryCap] = OldRecord(OldRuns - 1)
    /\ history[3] = OldRecord(1)

\* the records that execution:end events announced, in emission order: the
\* records appended by this process, in the order of their appends
Appended ==
    LET ends == SelectSeq(events, LAMBDA e : e.event = "execution:end")
    IN  [i \in 1..Len(ends) |-> ends[i].results]

\* the history begins with the appended records, the latest first
HistoryIsReverseOfAppends ==
    /\ Len(Appended) <= Len(history)
    /\ \A i \in 1..Len(Appended) : history[i] = Appended[Len(Appended) + 1 - i]

\* the answer of server.js:104
NoRunsResponse == [status |-> 404, text |-> "No runs found", runId |-> 0, body |-> <<>>]

\* every change of the history puts one record before the records it held
AppendPutsAtHead ==
    history' # history =>
        /\ Len(history') >= 1
        /\ Tail(history') = SubSeq(history, 1, Len(history') - 1)

\* GET /api/history answers with the records in the stored order, GET
\* /api/runs/latest with the first of them, and with 404 exactly when there
\* is none
ReadersAnswerNewestFirst ==
    /\ GetHistory => response'.status = 200 /\ response'.body = history
    /\ GetLatest =>
           IF history = <<>> THEN response' = NoRunsResponse
           ELSE response'.status = 200 /\ response'.body = <<history[1]>>
    /\ response' = NoRunsResponse => history = <<>>

(* C15: the history is newest-first: every append puts the new record at    *)
(* the head, so the history read by GetHistory holds the appended records   *)
(* in the reverse order of their appends, GetLatest answers with the record *)
(* appended last, and it answers NotFound exactly when the history is empty.*)
C15_HistoryNewestFirst ==
    /\ []HistoryIsReverseOfAppends
    /\ [][AppendPutsAtHead /\ ReadersAnswerNewestFirst]_vars

\* GetLatest answered with the second of two records appended by this process
C15_Witness ==
    /\ Len(Appended) = 2
    /\ response.status = 200
    /\ response.body = <<Appended[2]>>
    /\ Appended[1] # Appended[2]

(* C16: runIds are unique and non-decreasing in creation order: of two      *)
(* children, the one spawned later has the greater runId, also when both    *)
(* starts are handled at the same clock value.                              *)
C16_RunIdsUniqueAndOrdered ==
    \A p, q \in 1..Len(children) :
        p < q => children[p].runId < children[q].runId

(* C17: after a successful stop, every process of the stopped run's tree    *)
(* that may still be alive (the child's streams are not closed) has been    *)
(* sent a termination signal: the shell and the workers below it.           *)
C17_StopSignalsWholeTree ==
    \A p \in 1..Len(children) :
        (children[p].kill # "none" /\ ~children[p].closed) =>
            Signalled(children[p].kill) = ProcessTree

\* the scriptName members of the entries, in their order
ScriptNames(perScriptResults) ==
    [i \in 1..Len(perScriptResults) |-> perScriptResults[i].scriptName]

\* the sum of one member over the entries
TotalOf(perScriptResults, member) ==
    Sum([i \in 1..Len(perScriptResults) |-> perScriptResults[i][member]])

(* C18: in every record of the history, totalTests, totalPassed and         *)
(* totalFailed are the sums of totalTests, passed and failed over the       *)
(* record's perScriptResults, whether these came from the report file, from *)
(* the output because the file was missing, or from the output because the  *)
(* file could not be parsed.                                                *)
C18_TotalsAreSums ==
    \A k \in 1..Len(history) :
        /\ history[k].totalTests = TotalOf(history[k].perScriptResults, "totalTests")
        /\ history[k].totalPassed = TotalOf(history[k].perScriptResults, "passed")
        /\ history[k].totalFailed = TotalOf(history[k].perScriptResults, "failed")

\* a record with 40 tests made from the output after the report failed to parse
C18_Witness ==
    /\ Len(history) = 1
    /\ files[history[1].runId] = CorruptFile
    /\ history[1].totalTests = 41
    /\ history[1].totalPassed = 24
    /\ Len(history[1].perScriptResults) = 2

(* C19: in every record of the history, successRate is 100 * totalPassed /  *)
(* totalTests rounded to the nearest integer (a half upwards) when          *)
(* totalTests > 0, and 0 when totalTests is 0.                              *)
C19_SuccessRateIsRoundedRatio ==
    \A k \in 1..Len(history) :
        history[k].successRate =
            IF history[k].totalTests > 0
            THEN RoundDiv(100 * history[k].totalPassed, history[k].totalTests)
            ELSE 0

\* the first signal of the run the slot holds appends a record that has one
\* entry per requested script, in request order
CompletionNamesEveryScript ==
    \A p \in 1..Len(children) :
        (~children[p].exited /\ ~children[p].closed /\ SignalStep(p)
            /\ IsCurrent(children[p].runId)) =>
            /\ Len(history') = Len(history) + 1
            /\ ScriptNames(history'[1].perScriptResults) = children[p].scripts

(* C20: both parsers return one entry per requested script, in request      *)
(* order, for every script list, report and output: the completion of a run *)
(* appends a record whose scriptName sequence is the run's scripts list,    *)
(* and so is that of every record of the history.                           *)
C20_OneEntryPerScriptInOrder ==
    /\ [](\A k \in 1..Len(history) :
             ScriptNames(history[k].perScriptResults) = history[k].scripts)
    /\ [][CompletionNamesEveryScript]_vars

\* the first signal of the run the slot holds, handled without an exception
CompletesRun(p) ==
    /\ ~children[p].exited /\ ~children[p].closed /\ SignalStep(p)
    /\ IsCurrent(children[p].runId)
    /\ ~crashed'

\* the completion of a run appends a record with one entry per requested
\* script and the totals, and emits execution:end; the status of both is
\* Passed for the exit code 0 and Failed for every other code and for none
StatusFollowsExitCode ==
    \A p \in 1..Len(children) :
        CompletesRun(p) =>
            LET end == events'[Len(events')]
                record == history'[1]
            IN  /\ Len(history') = Len(history) + 1
                /\ Len(events') = Len(events) + 1
                /\ end.event = "execution:end" /\ end.runId = children[p].runId
                /\ end.results = record
                /\ end.status = record.status
                /\ record.status = (IF end.code = 0 THEN "Passed" ELSE "Failed")
                /\ ScriptNames(record.perScriptResults) = children[p].scripts
                /\ record.totalTests = TotalOf(record.perScriptResults, "totalTests")
                /\ record.totalPassed = TotalOf(record.perScriptResults, "passed")
                /\ record.totalFailed = TotalOf(record.perScriptResults, "failed")

ReportUnusable(c) == ~(files[c.runId].exists /\ files[c.runId].valid)

\* the first signal of the run the slot holds, its report unusable, completes
\* the run without an error: a record with an entry per script at the head,
\* execution:end emitted, the slot vacated, the server running
CompletesWithoutReport ==
    \A p \in 1..Len(children) :
        (~children[p].exited /\ ~children[p].closed /\ SignalStep(p)
            /\ IsCurrent(children[p].runId) /\ ReportUnusable(children[p])) =>
            /\ ~crashed'
            /\ Len(history') = Len(history) + 1
            /\ history'[1].runId = children[p].runId
            /\ ScriptNames(history'[1].perScriptResults) = children[p].scripts
            /\ Len(events') = Len(events) + 1
            /\ events'[Len(events')].event = "execution:end"
            /\ events'[Len(events')].results = history'[1]
            /\ currentExecution' = null

(* C22: when the report file is missing or cannot be parsed at completion,  *)
(* the run still completes: its results come from the output, its record is *)
(* appended, the slot is released and execution:end is emitted, and no      *)
(* error is surfaced.                                                       *)
C22_CompletesWithoutReport ==
    [][CompletesWithoutReport]_vars

\* the first signal of the run the slot holds, while history.json cannot be
\* written, still emits a terminal event of the run
WriteFailureStillEmitsTerminal ==
    \A p \in 1..Len(children) :
        (~children[p].exited /\ ~children[p].closed /\ SignalStep(p)
            /\ IsCurrent(children[p].runId) /\ ~writable) =>
            /\ Len(events') = Len(events) + 1
            /\ IsTerminal(events'[Len(events')])
            /\ events'[Len(events')].runId = children[p].runId

(* C23: when writing the history fails during the completion of run R, a    *)
(* terminal event of R is still emitted, carrying the failure: the lost     *)
(* record is not dropped silently.                                          *)
C23_WriteFailureReported ==
    [][WriteFailureStillEmitsTerminal]_vars

\* the members of an entry of the fallback parser, server.js:458-464
TextEntryMembers == {"scriptName", "passed", "failed", "totalTests", "duration"}

\* the output does not mention the script, in any case of letters
Unmentioned(output, script) == ~Includes(LowerStr(output), LowerStr(script))

\* a completion from the output gives a script that the output does not
\* mention an entry with the counts 0, or one with a further member that
\* marks it as a guess
NoCountsWithoutEvidence ==
    \A p \in 1..Len(children) :
        (CompletesRun(p) /\ ReportUnusable(children[p])) =>
            \A i \in 1..Len(children[p].scripts) :
                Unmentioned(children[p].outputLog, children[p].scripts[i]) =>
                    LET entry == history'[1].perScriptResults[i]
                    IN  \/ entry.passed = 0 /\ entry.failed = 0 /\ entry.totalTests = 0
                        \/ DOMAIN entry # TextEntryMembers

(* C24: in the fallback over the output, a script for which the output      *)
(* holds no pass or fail count still gets an entry, with passed = 0, failed *)
(* = 0 and totalTests = 0, or with an explicit mark that it is approximate: *)
(* the fallback reports no count that the output does not hold.             *)
C24_FallbackInventsNoCounts ==
    [][NoCountsWithoutEvidence]_vars

RECURSIVE MatchedSpecs(_, _)
\* the specs of the report that belong to a script: those of every suite,
\* at any depth, whose file name contains the script name
MatchedSpecs(suites, script) ==
    IF suites = <<>> THEN <<>>
    ELSE (IF Includes(Head(suites).file, script) THEN Head(suites).specs ELSE <<>>)
         \o MatchedSpecs(Head(suites).suites, script)
         \o MatchedSpecs(Tail(suites), script)

\* this step completes the run of child p from its report file
CompletesFromReport(p) ==
    /\ CompletesRun(p)
    /\ files[children[p].runId].exists /\ files[children[p].runId].valid

\* an entry made from the report has one test case per matched spec
OneTestCasePerMatchedSpec ==
    \A p \in 1..Len(children) :
        CompletesFromReport(p) =>
            \A i \in 1..Len(children[p].scripts) :
                history'[1].perScriptResults[i].totalTests =
                    Len(MatchedSpecs(files[children[p].runId].suites, children[p].scripts[i]))

\* the entries that carry test cases: those made from a report
ReportEntries ==
    {e \in UNION {{history[k].perScriptResults[i] : i \in 1..Len(history[k].perScriptResults)} :
                     k \in 1..Len(history)} : "testCases" \in DOMAIN e}

\* the number of test cases of an entry whose status is one of the given
CasesWithStatus(e, statuses) ==
    Cardinality({i \in 1..Len(e.testCases) : e.testCases[i].status \in statuses})

\* passed counts the test cases passed or expected, failed those failed or
\* unexpected, totalTests all of them
CountsFollowOutcomes ==
    \A e \in ReportEntries :
        /\ e.passed = CasesWithStatus(e, {"passed", "expected"})
        /\ e.failed = CasesWithStatus(e, {"failed", "unexpected"})
        /\ e.totalTests = Len(e.testCases)

(* C25: in the parsing of the report, a test case with the outcome passed   *)
(* or expected increments passed, one with failed or unexpected increments  *)
(* failed, any other or missing outcome increments neither, and every       *)
(* matched test case increments totalTests exactly once.                    *)
C25_CountsByOutcome ==
    /\ []CountsFollowOutcomes
    /\ [][OneTestCasePerMatchedSpec]_vars

\* the entry of a suite with a describe block: of its five test cases two
\* count as passed (passed, expected), one as failed, and two (skipped, no
\* result) as neither
C25_Witness ==
    \E e \in ReportEntries :
        /\ e.totalTests = 5 /\ e.passed = 2 /\ e.failed = 1
        /\ CasesWithStatus(e, {"skipped"}) = 1
        /\ CasesWithStatus(e, {"unknown"}) = 1

\* the result of the last attempt of a spec, <<>> when it has none
LatestResult(spec) ==
    IF Len(spec.tests) > 0 /\ Len(spec.tests[1].results) > 0
    THEN <<spec.tests[1].results[Len(spec.tests[1].results)]>>
    ELSE <<>>

\* the test cases of an entry made from the report carry, spec by spec, the
\* status and duration of the last attempt, and passed, failed and duration
\* of the entry are counted from these
LatestAttemptCounts ==
    \A p \in 1..Len(children) :
        CompletesFromReport(p) =>
            \A i \in 1..Len(children[p].scripts) :
                LET e == history'[1].perScriptResults[i]
                    specs == MatchedSpecs(files[children[p].runId].suites,
                                          children[p].scripts[i])
                    ran == {k \in 1..Len(specs) : LatestResult(specs[k]) # <<>>}
                    latest == [k \in ran |-> LatestResult(specs[k])[1]]
                IN  /\ Len(e.testCases) = Len(specs)
                    /\ \A k \in ran :
                           /\ e.testCases[k].status = latest[k].status
                           /\ e.testCases[k].duration = latest[k].duration
                    /\ e.passed =
                           Cardinality({k \in ran : latest[k].status \in {"passed", "expected"}})
                    /\ e.failed =
                           Cardinality({k \in ran : latest[k].status \in {"failed", "unexpected"}})

(* C26: in the parsing of the report, the outcome and the duration counted  *)
(* for a test case are those of its most recent execution, the last retry.  *)
C26_LastRetryCounts ==
    [][LatestAttemptCounts]_vars

\* the braces opened and not yet closed in a text
BraceDepth(text) ==
    Cardinality({i \in 1..Len(text) : text[i] = "{"})
        - Cardinality({i \in 1..Len(text) : text[i] = "}"})

\* the chunk belongs to the report embedded in the stdout of child c: it
\* opens the report, or the report is open when it arrives
InReport(c, line) ==
    \/ StartsWith(Trim(line), <<"{">>)
    \/ BraceDepth(c.outputLog) > 0

\* no chunk of the report is emitted as execution:log
ReportLinesSuppressed ==
    \A line \in OutputLines :
        (StdoutData(1, line) /\ InReport(children[1], line)) => events' = events

(* C27: no stdout line that belongs to the embedded report is emitted as an *)
(* execution:log event: every line from the opening line (trimmed, begins   *)
(* with "{") to the final closing-brace line is suppressed, the inner lines *)
(* that begin with a closing brace, such as "},", included.                 *)
C27_ReportNeverLogged ==
    [][ReportLinesSuppressed]_vars

\* the chunk holds no brace
Braceless(line) == \A i \in 1..Len(line) : line[i] \notin {"{", "}"}

\* a chunk of the run the slot holds that is not blank, not of the report
\* (it holds no brace and no report is open) and not on the denylist is
\* emitted as execution:log
OrdinaryLinesLogged ==
    \A line \in OutputLines :
        (/\ StdoutData(1, line)
         /\ IsCurrent(children[1].runId)
         /\ Len(Trim(line)) > 0
         /\ Braceless(line) /\ ~InReport(children[1], line)
         /\ ~shouldHide(line)) =>
            events' = Append(events, [event |-> "execution:log", runId |-> children[1].runId,
                                      type |-> "stdout", data |-> line])

(* C28: every non-empty stdout line of the active run that is neither part  *)
(* of the embedded report nor on the denylist is emitted as execution:log;  *)
(* the ordinary lines that arrive after the closing-brace line of the       *)
(* report are shown again.                                                  *)
C28_OrdinaryLinesLogged ==
    [][OrdinaryLinesLogged]_vars

\* a termination signal of a child that a stop has killed changes neither
\* the slot, the history nor the events
SignalAfterStopIsNoOp ==
    \A p \in 1..Len(children) :
        (children[p].kill # "none" /\ SignalStep(p)) =>
            UNCHANGED <<currentExecution, history, events>>

(* C29: after a stop of run R, every later exit or close of R's child is a  *)
(* no-op: it appends no record, emits no execution:end and neither vacates  *)
(* nor alters the slot, also when a new run has occupied the slot by then.  *)
C29_SignalAfterStopIsNoOp ==
    [][SignalAfterStopIsNoOp]_vars

\* the last event emitted is an execution:end
EndedLast == events # <<>> /\ events[Len(events)].event = "execution:end"

\* the step that emits execution:end leaves the record it announces at the
\* head of the history and the slot vacant
EndedAfterRecordAndRelease ==
    (events' # events /\ events'[Len(events')].event = "execution:end") =>
        /\ history' # <<>>
        /\ history'[1] = events'[Len(events')].results
        /\ history'[1].runId = events'[Len(events')].runId
        /\ currentExecution' = null

\* requests handled next after an execution:end: GET /api/runs/latest
\* answers with the announced record, a start is answered "started"
ReactionsToEnded ==
    EndedLast =>
        /\ GetLatest =>
               /\ response'.status = 200
               /\ response'.body = <<events[Len(events)].results>>
        /\ Execute(ValidBody) =>
               /\ response'.status = 200
               /\ currentExecution' # null

(* C30: when the execution:end of run R is emitted, R's record is already   *)
(* the head of the history and the slot is already vacant: an observer that *)
(* reacts by reading the latest run sees R's record, and a start issued in  *)
(* reaction is not rejected because of R.                                   *)
C30_EndedAfterRecordAndRelease ==
    [][EndedAfterRecordAndRelease /\ ReactionsToEnded]_vars

\* GET /api/runs/latest, handled next after the execution:end of the second
\* completion, answered with the record the event announced
C30_Witness ==
    /\ Len(Appended) = 2
    /\ EndedLast
    /\ response.status = 200
    /\ response.body = <<events[Len(events)].results>>

\* child p is the one the slot tracks
Tracked(p) == currentExecution # null /\ currentExecution.child = p

\* the exit or the close of the child the slot tracks vacates the slot in
\* the step that delivers it
TrackedSignalVacatesSlot ==
    \A p \in 1..Len(children) :
        (Tracked(p) /\ SignalStep(p)) => currentExecution' = null

\* a start with a valid config handled while the slot is vacant is answered
\* "started" and occupies the slot
StartOnVacantSlotSucceeds ==
    (currentExecution = null /\ ValidStartStep) =>
        /\ response'.status = 200
        /\ currentExecution' # null

HistoryChangesOnlyOnCompletion ==
    history' # history =>
        /\ \E p \in 1..Len(children) : SignalStep(p)
        /\ Len(events') = Len(events) + 1
        /\ events'[Len(events')].event = "execution:end"
        /\ Len(history') \in {Len(history), Len(history) + 1}
        /\ Tail(history') = SubSeq(history, 1, Len(history') - 1)

\* the requests that start runs and read the history leave it unchanged
RequestsLeaveHistory ==
    (\/ Execute(ValidBody)
     \/ \E id \in OldIds \cup RunIds : Rerun(id)
     \/ GetHistory
     \/ GetLatest
     \/ \E id \in OldIds \cup RunIds : GetRun(id)) => history' = history

(* C32: the history changes only in the completion path: start, rerun and   *)
(* the three read requests leave it unchanged, and a record that is in the  *)
(* history is never modified afterwards, until it is evicted from the tail. *)
C32_HistoryChangesOnlyOnCompletion ==
    [][HistoryChangesOnlyOnCompletion /\ RequestsLeaveHistory]_vars

\* GET /api/runs/:id has answered with the older of two records appended to
\* a full history, after a rerun
C32_Witness ==
    /\ Len(history) = HistoryCap
    /\ Len(Appended) = 2
    /\ response.status = 200
    /\ response.body = <<history[2]>>
    /\ history[2] = Appended[1]
    /\ \E p \in 1..Len(children) : ConfigOf(children[p]) = OldConfig

(* C33: the status of a record agrees with its parsed results: every record *)
(* whose totalFailed is greater than 0 has the status Failed, whatever the  *)
(* exit code of the child and the content of the report.                    *)
C33_FailuresMeanFailed ==
    \A k \in 1..Len(history) :
        history[k].totalFailed > 0 => history[k].status = "Failed"

(* C34: every child that is still alive is either the one the slot tracks   *)
(* or one that a stop has sent its kill to: no sequence of start, stop and  *)
(* rerun requests leaves a running child that the server no longer tracks   *)
(* and can no longer stop.                                                  *)
C34_NoUntrackedLiveChild ==
    \A p \in 1..Len(children) :
        (~children[p].exited /\ ~children[p].closed) =>
            (Tracked(p) \/ children[p].kill # "none")

\* the counts of an entry are natural numbers and passed and failed
\* together do not exceed totalTests
EntryCountsBounded(e) ==
    /\ e.passed >= 0 /\ e.failed >= 0 /\ e.totalTests >= 0
    /\ e.passed + e.failed <= e.totalTests

(* C35: in every entry of every record, passed + failed <= totalTests with  *)
(* all three non-negative; hence totalPassed + totalFailed <= totalTests    *)
(* and 0 <= successRate <= 100 in every record.                             *)
C35_CountsBounded ==
    \A k \in 1..Len(history) :
        /\ \A i \in 1..Len(history[k].perScriptResults) :
               EntryCountsBounded(history[k].perScriptResults[i])
        /\ history[k].totalPassed >= 0 /\ history[k].totalFailed >= 0
        /\ history[k].totalPassed + history[k].totalFailed <= history[k].totalTests
        /\ history[k].successRate >= 0 /\ history[k].successRate <= 100

\* a record made from the output with 23 passed and 17 failed tests of the
\* one script, its successRate strictly between the bounds
C35_Witness ==
    /\ Len(history) = 1
    /\ Len(history[1].perScriptResults) = 1
    /\ history[1].perScriptResults[1].passed = 23
    /\ history[1].perScriptResults[1].failed = 17
    /\ history[1].totalTests = 40
    /\ history[1].successRate \in 1..99

\* what the command line and the environment of a child are made of,
\* server.js:183-200: the folder and names of the script paths, the region
\* and the overrides of the environment
InvocationOf(c) ==
    [folderName |-> c.folderName, scripts |-> c.scripts, region |-> c.region, env |-> c.env]

\* a successful rerun of the record of a run spawns a child with the
\* invocation of the child of that run
RerunRepeatsInvocation ==
    \A id \in RunIds :
        (findRun(id) # <<>> /\ Rerun(id) /\ response'.status = 200) =>
            \A q \in 1..Len(children) :
                children[q].runId = id =>
                    InvocationOf(children'[Len(children')]) = InvocationOf(children[q])

(* C36: a rerun of a recorded run spawns the child with the invocation of   *)
(* the original run: the same script paths, region config and environment   *)
(* overrides, for every original request, those started with the suiteType  *)
(* regression included.                                                     *)
C36_RerunRepeatsInvocation ==
    [][RerunRepeatsInvocation]_vars

(* C37: once a run has its terminal event and the slot is vacant, the       *)
(* report file written for its runId no longer exists: it is removed when   *)
(* the report was parsed, when it could not be parsed, and after a stop.    *)
C37_ReportFileRemoved ==
    currentExecution = null =>
        \A id \in RunIds : TerminalsOf(id) # {} => ~files[id].exists

====
